---- MODULE Spec2Model ----
(***************************************************************************)
(* Model of synthetic_data/synthetic_data_pipeline.py: the orchestrator    *)
(* run_pipeline and the worker process_and_save_text.                      *)
(*                                                                         *)
(* The external collaborators (TTS synthesis, audio tokenizer, Writer /    *)
(* save_batch, save_failed_indices) are modelled by their outcome: a call  *)
(* either returns or raises, and what it raises is either caught by        *)
(* "except Exception" or not.  The number of calls that raise in one run   *)
(* is bounded by the run's fault budget (0 in a reliable run).             *)
(***************************************************************************)
EXTENDS Integers, Sequences, FiniteSets, TLC

\* ---- bounds ------------------------------------------------------------
\* runs with several workers whose external calls may raise
MaxDevices == 2
MaxProcs == 2
MaxWorkers == 2
MaxLoad == 7
MaxRetries == 1
MaxBatch == 2
MaxFaults == 2
\* runs with one worker whose external calls may raise
WorkerMaxItems == 4
WorkerMaxRetries == 3
WorkerMaxBatch == 3
WorkerMaxFaults == 3
\* runs in which no external call raises
ReliableMaxItems == 10
ReliableMaxBatch == 3
\* runs in which main has not its usual config
MainMaxItems == 1
\* launches in which an external call may raise
LaunchMaxFaults == 1
\* runs checked under fair scheduling
LiveMaxWorkers == 2
LiveMaxLoad == 6
LiveMaxRetries == 2
LiveMaxBatch == 2
LiveMaxFaults == 2

VARIABLES
    config,            \* the dict handed to run_pipeline (key -> value)
    dataset,           \* the "index" column of the dataset
    budget,            \* environment: how many more external calls may raise
    opc,               \* position of run_pipeline
    chunks,            \* chunks[i]: the "index" column of chunk i
    counter_exists,    \* Value("i", 0) has been created
    processed_count,   \* processed_count.value
    lock,              \* holders of processed_count.get_lock()
    started,           \* number of Process objects started so far
    final_count,       \* value of the "Final processed count" log line
    main_config,       \* the keys of the config file that main reads itself
    uploads,           \* number of upload_folder_to_s3 invocations
    pc,                \* position of each worker process
    device,            \* device argument of each worker
    process_id,        \* process_id argument of each worker
    pos,               \* 1-based position of the current item in the chunk
    attempt,           \* loop variable of "for attempt in range(max_retries)"
    batch,             \* local list "batch" (records, by index)
    failed_indices,    \* local list "failed_indices"
    store,             \* store[i]: batches written to audio_tokens_<i>
    fcalls,            \* fcalls[i]: lists persisted to failed_indices_<i>.json
    tmp,               \* value read by "processed_count.value += 1"
    hist,              \* events of the attempts of the item at histPos
    histPos,           \* position of the item hist is about
    counted,           \* indices for which line 109 has completed
    nBatchCalls,       \* number of save_batch invocations (returned or raised)
    nFailedCalls,      \* number of save_failed_indices invocations
    caught,            \* number of stage failures caught at line 111
    raised             \* number of exceptions raised so far, caught or not

ovars == <<config, dataset, opc, chunks, counter_exists, started,
           final_count, main_config, uploads>>
wvars == <<pc, device, process_id, pos, attempt, batch, failed_indices,
           store, fcalls, tmp, hist, histPos, counted, nBatchCalls,
           nFailedCalls, caught>>
vars == <<ovars, wvars, processed_count, lock, budget, raised>>

\* ---- configuration ------------------------------------------------------
RequiredKeys ==
    {"devices", "num_procs_per_device", "save_dir", "save_batch_size",
     "sample_rate", "max_retries", "speaker", "format"}

\* faulty variant: the format key is looked up only after the launch
ConfigCompleteLazy == (RequiredKeys \ {"format"}) \subseteq DOMAIN config

ConfigComplete == RequiredKeys \subseteq DOMAIN config

devices == config["devices"]
num_procs_per_device == config["num_procs_per_device"]
save_batch_size == config["save_batch_size"]
max_retries == config["max_retries"]

num_workers == Len(devices) * num_procs_per_device

\* the attributes every module object has: those the import system sets
\* on a module loaded from a file, and those of its type
ModuleAttributes ==
    {"__name__", "__doc__", "__package__", "__loader__", "__spec__",
     "__file__", "__cached__", "__builtins__", "__dict__", "__class__",
     "__annotations__", "__delattr__", "__dir__", "__eq__", "__format__",
     "__ge__", "__getattribute__", "__getstate__", "__gt__", "__hash__",
     "__init__", "__init_subclass__", "__le__", "__lt__", "__ne__",
     "__new__", "__reduce__", "__reduce_ex__", "__repr__", "__setattr__",
     "__sizeof__", "__str__", "__subclasshook__"}

\* the attributes of the speakers module: the speakers it defines and what
\* every module has
Speakers == {"default_speaker"} \cup ModuleAttributes

\* line 170: getattr(speakers, speaker) finds the attribute
SpeakerRegistered == config["speaker"] \in Speakers

\* lines 258-261: the keys of config["s3"] that main looks up
S3Keys == {"save_dir", "bucket_name", "s3_folder", "num_processes"}

\* the config files main is run with: the upload configured and complete,
\* not wanted, wanted with an incomplete or absent s3 section, and without
\* the upload_to_s3 key
DefaultMain == [upload_to_s3 |-> TRUE, s3 |-> S3Keys]

MainConfigs ==
    {DefaultMain,
     [upload_to_s3 |-> FALSE, s3 |-> S3Keys],
     [upload_to_s3 |-> TRUE, s3 |-> S3Keys \ {"bucket_name"}],
     [upload_to_s3 |-> TRUE],
     [s3 |-> S3Keys]}

Workers == DOMAIN pc

\* line 71, lines 76-78: the worker's files are named by its process_id
pid(w) == process_id[w]

\* ---- helpers ------------------------------------------------------------
Min(a, b) == IF a < b THEN a ELSE b

RECURSIVE Flatten(_)
Flatten(ss) == IF ss = <<>> THEN <<>> ELSE Head(ss) \o Flatten(Tail(ss))

Count(x, s) == Cardinality({k \in DOMAIN s : s[k] = x})

Last(s) == s[Len(s)]

IsPrefix(s, t) == Len(s) <= Len(t) /\ SubSeq(t, 1, Len(s)) = s

\* ---- chunker (utils.create_non_overlapping_chunks) ----------------------
ChunkSize(i, M, W) == (M \div W) + (IF i < M % W THEN 1 ELSE 0)

\* faulty variant: the longer chunks do not shift the later ones
ChunkStartEven(i, M, W) == i * (M \div W)

\* the position before the first item of chunk i
ChunkStart(i, M, W) == i * (M \div W) + Min(i, M % W)

create_non_overlapping_chunks(ds, W) ==
    [i \in 0..(W - 1) |->
        [k \in 1..ChunkSize(i, Len(ds), W) |->
            ds[ChunkStart(i, Len(ds), W) + k]]]

\* ---- initial states -----------------------------------------------------
FullConfig(nd, np, sb, mr) ==
    [devices |-> [k \in 1..nd |-> k - 1],
     num_procs_per_device |-> np,
     save_dir |-> "save_dir",
     save_batch_size |-> sb,
     sample_rate |-> 24000,
     max_retries |-> mr,
     speaker |-> "default_speaker",
     format |-> "parquet"]

InitWith(cfg, mc, W, M, b) ==
    /\ config = cfg
    /\ dataset = [k \in 1..M |-> k - 1]
    /\ budget = b
    /\ opc = "unpack"
    /\ chunks = <<>>
    /\ counter_exists = FALSE
    /\ processed_count = 0
    /\ lock = {}
    /\ started = 0
    /\ final_count = 0
    /\ main_config = mc
    /\ uploads = 0
    /\ pc = [w \in 0..(W - 1) |-> "unstarted"]
    /\ device = [w \in 0..(W - 1) |-> 0]
    /\ process_id = [w \in 0..(W - 1) |-> 0]
    /\ pos = [w \in 0..(W - 1) |-> 1]
    /\ attempt = [w \in 0..(W - 1) |-> 0]
    /\ batch = [w \in 0..(W - 1) |-> <<>>]
    /\ failed_indices = [w \in 0..(W - 1) |-> <<>>]
    /\ store = [w \in 0..(W - 1) |-> <<>>]
    /\ fcalls = [w \in 0..(W - 1) |-> <<>>]
    /\ tmp = [w \in 0..(W - 1) |-> 0]
    /\ hist = [w \in 0..(W - 1) |-> <<>>]
    /\ histPos = [w \in 0..(W - 1) |-> 0]
    /\ counted = [w \in 0..(W - 1) |-> <<>>]
    /\ nBatchCalls = [w \in 0..(W - 1) |-> 0]
    /\ nFailedCalls = [w \in 0..(W - 1) |-> 0]
    /\ caught = 0
    /\ raised = 0

\* runs of at most maxW workers on at most maxD devices with at most maxP
\* processes per device: either
\* up to maxF external calls raise (at most maxM items; workers, items,
\* retries and batch size add up to at most maxLoad; at most MainMaxItems
\* items unless main has its usual config) or none does (dataset sizes relM,
\* batch sizes relB); or one required key is absent from the config; or the
\* speaker is no speaker of the speakers module (no attribute of it at all,
\* or an attribute every module has)
InitBounded(maxW, maxD, maxP, maxM, maxLoad, maxR, maxB, maxF, relM, relB) ==
    \E nd \in 1..maxD, np \in 1..maxP :
      /\ nd * np <= maxW
      /\ \/ \E sb \in 1..maxB, mr \in 1..maxR, mc \in MainConfigs,
                 M \in 0..maxM :
              /\ nd * np + M + mr + sb <= maxLoad
              /\ mc # DefaultMain => M <= MainMaxItems
              /\ InitWith(FullConfig(nd, np, sb, mr), mc, nd * np, M,
                          maxF)
         \/ \E sb \in relB, M \in relM :
              InitWith(FullConfig(nd, np, sb, 1), DefaultMain, nd * np, M, 0)
         \/ \E missing \in RequiredKeys :
              InitWith([k \in RequiredKeys \ {missing} |->
                           FullConfig(nd, np, 1, 1)[k]],
                       DefaultMain, nd * np, 1, 0)
         \/ \E sp \in {"unknown_speaker", "__name__"} :
              InitWith([FullConfig(nd, np, 1, 1) EXCEPT !.speaker = sp],
                       DefaultMain, nd * np, 1, 0)

\* the workers of these runs share one device; the launch on several
\* devices is InitLaunch
Init ==
    InitBounded(MaxWorkers, 1, MaxWorkers, MaxLoad, MaxLoad, MaxRetries,
                MaxBatch, MaxFaults, {ReliableMaxItems}, {ReliableMaxBatch})

InitWorker ==
    InitBounded(1, 1, 1, WorkerMaxItems,
                1 + WorkerMaxItems + WorkerMaxRetries + WorkerMaxBatch,
                WorkerMaxRetries, WorkerMaxBatch, WorkerMaxFaults,
                0..ReliableMaxItems, 1..ReliableMaxBatch)

\* runs checked under fair scheduling: several workers, calls may raise
InitLive ==
    InitBounded(LiveMaxWorkers, 1, LiveMaxWorkers, LiveMaxLoad, LiveMaxLoad,
                LiveMaxRetries, LiveMaxBatch, LiveMaxFaults, {}, {})

\* the launch of run_pipeline alone: every worker count, no item is processed
InitLaunch ==
    InitBounded(MaxDevices * MaxProcs, MaxDevices, MaxProcs, 0,
                MaxDevices * MaxProcs + 2,
                1, 1, LaunchMaxFaults, 0..ReliableMaxItems, {1})

\* ---- run_pipeline -------------------------------------------------------
\* lines 146-167: every required key is looked up; all are present
UnpackConfig ==
    /\ opc = "unpack"
    /\ ConfigComplete
    /\ opc' = "setup"
    /\ UNCHANGED <<config, dataset, main_config, uploads, chunks,
                   counter_exists, started, final_count, wvars,
                   processed_count, lock, budget, raised>>

\* lines 146-167: config[key] raises KeyError for an absent key
UnpackConfigFail ==
    /\ opc = "unpack"
    /\ ~ConfigComplete
    /\ opc' = "config_error"
    /\ raised' = raised + 1
    /\ UNCHANGED <<config, dataset, main_config, uploads, chunks,
                   counter_exists, started, final_count, wvars,
                   processed_count, lock, budget>>

\* line 170: the speakers module has no attribute of that name, getattr
\* raises AttributeError and run_pipeline ends before any worker is started
SetupSpeakerFail ==
    /\ opc = "setup"
    /\ ~SpeakerRegistered
    /\ opc' = "setup_error"
    /\ raised' = raised + 1
    /\ UNCHANGED <<config, dataset, main_config, uploads, chunks,
                   counter_exists, started, final_count, wvars,
                   processed_count, lock, budget>>

\* lines 173-178: os.makedirs (save_dir is taken by a file) or the chunker
\* raises; run_pipeline ends with no chunk list and no worker
SetupFail ==
    /\ opc = "setup"
    /\ SpeakerRegistered
    /\ budget > 0
    /\ budget' = budget - 1
    /\ raised' = raised + 1
    /\ opc' = "setup_error"
    /\ UNCHANGED <<config, dataset, main_config, uploads, chunks,
                   counter_exists, started, final_count, wvars,
                   processed_count, lock>>

\* line 180: Value("i", 0) raises; the chunks of line 178 are there,
\* run_pipeline ends with no counter and no worker
SetupCounterFail ==
    /\ opc = "setup"
    /\ SpeakerRegistered
    /\ budget > 0
    /\ budget' = budget - 1
    /\ raised' = raised + 1
    /\ chunks' = create_non_overlapping_chunks(dataset, num_workers)
    /\ opc' = "setup_error"
    /\ UNCHANGED <<config, dataset, main_config, uploads, counter_exists,
                   started, final_count, wvars, processed_count, lock>>

\* lines 170-180: resolve the speaker, create the save directory, chunk the
\* dataset, create the shared counter
Setup ==
    /\ opc = "setup"
    /\ SpeakerRegistered
    /\ chunks' = create_non_overlapping_chunks(dataset, num_workers)
    /\ counter_exists' = TRUE
    /\ processed_count' = 0
    /\ opc' = "launch"
    /\ UNCHANGED <<config, dataset, main_config, uploads, started,
                   final_count, wvars, lock, budget, raised>>

\* faulty variant: the workers are bound to the devices block by block
DeviceOfBlock(i) == devices[(i \div num_procs_per_device) + 1]

\* line 184: device = devices[i % len(devices)]
DeviceOf(i) == devices[(i % Len(devices)) + 1]

\* faulty variant: the worker is identified by its device slot
ProcessIdOfDevice(i) == i % Len(devices)

\* lines 183, 191: process_id is the position of the chunk in the list
ProcessIdOf(i) == i

\* lines 183-202: one Process per chunk, started in the order of the list
StartWorker ==
    /\ opc = "launch"
    /\ started \in DOMAIN chunks
    /\ pc' = [pc EXCEPT ![started] = "init"]
    /\ device' = [device EXCEPT ![started] = DeviceOf(started)]
    /\ process_id' = [process_id EXCEPT ![started] = ProcessIdOf(started)]
    /\ started' = started + 1
    /\ opc' = IF started + 1 \in DOMAIN chunks THEN "launch" ELSE "poll"
    /\ UNCHANGED <<config, dataset, main_config, uploads, chunks,
                   counter_exists, final_count, pos, attempt, batch,
                   failed_indices, store, fcalls, tmp, hist, histPos, counted,
                   nBatchCalls, nFailedCalls, caught, processed_count, lock,
                   budget, raised>>

\* lines 185-201: Process(...) or p.start() raises; run_pipeline ends, the
\* workers started before keep running
StartWorkerFail ==
    /\ opc = "launch"
    /\ started \in DOMAIN chunks
    /\ budget > 0
    /\ budget' = budget - 1
    /\ raised' = raised + 1
    /\ opc' = "launch_error"
    /\ UNCHANGED <<config, dataset, main_config, uploads, chunks,
                   counter_exists, started, final_count, wvars,
                   processed_count, lock>>

\* the process has died: an exception left process_and_save_text, raised by a
\* constructor (lines 60, 61, 72), raised in the try block without being an
\* Exception (lines 90-109), raised by a drain write (lines 122, 125) or by
\* the close of the writer (line 127)
Crashed(w) ==
    pc[w] \in {"crashed_init", "crashed_loop", "crashed_drain_batch",
               "crashed_drain_failed", "crashed_close"}

\* faulty variant: a process that died at the drain still counts as alive
AliveUnlessDone(w) == pc[w] # "unstarted" /\ pc[w] # "done"

\* Process.is_alive()
Alive(w) == pc[w] # "unstarted" /\ pc[w] # "done" /\ ~Crashed(w)

\* lines 204-207: some worker is alive: log the counter, sleep
Poll ==
    /\ opc = "poll"
    /\ \E w \in Workers : Alive(w)
    /\ UNCHANGED <<config, dataset, main_config, uploads, opc, chunks,
                   counter_exists, started, final_count, wvars,
                   processed_count, lock, budget, raised>>

\* line 204: no worker is alive: leave the loop
PollExit ==
    /\ opc = "poll"
    /\ \A w \in Workers : ~Alive(w)
    /\ opc' = "join"
    /\ UNCHANGED <<config, dataset, main_config, uploads, chunks,
                   counter_exists, started, final_count, wvars,
                   processed_count, lock, budget, raised>>

\* lines 210-213: join every worker
Join ==
    /\ opc = "join"
    /\ \A w \in Workers : ~Alive(w)
    /\ opc' = "final"
    /\ UNCHANGED <<config, dataset, main_config, uploads, chunks,
                   counter_exists, started, final_count, wvars,
                   processed_count, lock, budget, raised>>

\* line 216: log the final count
LogFinal ==
    /\ opc = "final"
    /\ final_count' = processed_count
    /\ opc' = "returned"
    /\ UNCHANGED <<config, dataset, main_config, uploads, chunks,
                   counter_exists, started, wvars, processed_count, lock,
                   budget, raised>>

\* ---- main ---------------------------------------------------------------
\* faulty variant: main uploads whatever the configuration says
UploadAlways == TRUE

\* line 255: config["upload_to_s3"] is there and true
UploadConfigured ==
    "upload_to_s3" \in DOMAIN main_config /\ main_config["upload_to_s3"]

\* line 255: the lookup of config["upload_to_s3"] succeeds
UploadKeyPresent == "upload_to_s3" \in DOMAIN main_config

\* lines 258-261: every lookup config["s3"][key] succeeds
S3Complete == "s3" \in DOMAIN main_config /\ S3Keys \subseteq main_config["s3"]

\* lines 255-262: run_pipeline has returned, upload_folder_to_s3 is invoked
\* and returns
MainUpload ==
    /\ opc = "returned"
    /\ UploadConfigured
    /\ S3Complete
    /\ uploads' = uploads + 1
    /\ opc' = "exit"
    /\ UNCHANGED <<config, dataset, main_config, chunks, counter_exists,
                   started, final_count, wvars, processed_count, lock, budget,
                   raised>>

\* lines 255-262: upload_folder_to_s3 is invoked and raises
MainUploadFail ==
    /\ opc = "returned"
    /\ UploadConfigured
    /\ S3Complete
    /\ budget > 0
    /\ budget' = budget - 1
    /\ raised' = raised + 1
    /\ uploads' = uploads + 1
    /\ opc' = "main_error"
    /\ UNCHANGED <<config, dataset, main_config, chunks, counter_exists,
                   started, final_count, wvars, processed_count, lock>>

\* line 255 or lines 258-261: config["upload_to_s3"], config["s3"] or a key
\* of it is absent; KeyError leaves main before upload_folder_to_s3 is called
MainConfigFail ==
    /\ opc = "returned"
    /\ ~UploadKeyPresent \/ (UploadConfigured /\ ~S3Complete)
    /\ opc' = "main_error"
    /\ raised' = raised + 1
    /\ UNCHANGED <<config, dataset, main_config, uploads, chunks,
                   counter_exists, started, final_count, wvars,
                   processed_count, lock, budget>>

\* line 255 false: main returns without an upload
MainNoUpload ==
    /\ opc = "returned"
    /\ UploadKeyPresent
    /\ ~UploadConfigured
    /\ opc' = "exit"
    /\ UNCHANGED <<config, dataset, main_config, uploads, chunks,
                   counter_exists, started, final_count, wvars,
                   processed_count, lock, budget, raised>>

\* ---- process_and_save_text ----------------------------------------------
\* line 71
file_path(w) == <<"audio_tokens", process_id[w]>>

\* lines 76-78
saved_failed_indice_path(w) == <<"failed_indices", process_id[w]>>

Index(w) == chunks[w][pos[w]]

\* faulty variant: the end of the chunk leads straight to the close
LoopTargetNoDrain(w, p) == IF p > Len(chunks[w]) THEN "close" ELSE "try"

\* the position a worker is at once it turns to the item at position p
LoopTarget(w, p) == IF p > Len(chunks[w]) THEN "drain_batch" ELSE "try"

\* events of the current item so far (a first attempt starts a new item)
HistBase(w) == IF attempt[w] = 0 THEN <<>> ELSE hist[w]

\* lines 57-85: construct the collaborators, empty batch and failed list
WorkerInit(w) ==
    /\ pc[w] = "init"
    /\ batch' = [batch EXCEPT ![w] = <<>>]
    /\ failed_indices' = [failed_indices EXCEPT ![w] = <<>>]
    /\ pc' = [pc EXCEPT ![w] = LoopTarget(w, 1)]
    /\ UNCHANGED <<ovars, device, process_id, pos, attempt, store, fcalls,
                   tmp, hist, histPos, counted, nBatchCalls, nFailedCalls,
                   processed_count, lock, budget, caught, raised>>

\* line 60, 61 or 72 raises (TTSProcessor, AudioTokenizer, Writer): nothing
\* catches it, the process dies before its first item
WorkerInitFail(w) ==
    /\ pc[w] = "init"
    /\ budget > 0
    /\ budget' = budget - 1
    /\ raised' = raised + 1
    /\ pc' = [pc EXCEPT ![w] = "crashed_init"]
    /\ UNCHANGED <<ovars, device, process_id, pos, attempt, batch,
                   failed_indices, store, fcalls, tmp, hist, histPos, counted,
                   nBatchCalls, nFailedCalls, processed_count, lock, caught>>

\* faulty variant: the retry loop gives up one attempt early
IsLastAttemptEarly(w) == attempt[w] >= max_retries - 2

\* line 115
IsLastAttempt(w) == attempt[w] = max_retries - 1

\* faulty variant: the failed index replaces the list instead of being appended
ExceptHandlerOverwrite(w) ==
    IF IsLastAttempt(w)
    THEN /\ failed_indices' = [failed_indices EXCEPT ![w] = <<Index(w)>>]
         /\ pos' = [pos EXCEPT ![w] = @ + 1]
         /\ attempt' = [attempt EXCEPT ![w] = 0]
         /\ pc' = [pc EXCEPT ![w] = LoopTarget(w, pos[w] + 1)]
    ELSE /\ failed_indices' = failed_indices
         /\ pos' = pos
         /\ attempt' = [attempt EXCEPT ![w] = @ + 1]
         /\ pc' = [pc EXCEPT ![w] = "try"]

\* lines 111-117: the except clause of one attempt
ExceptHandler(w) ==
    IF IsLastAttempt(w)
    THEN /\ failed_indices' =
                [failed_indices EXCEPT ![w] = Append(@, Index(w))]
         /\ pos' = [pos EXCEPT ![w] = @ + 1]
         /\ attempt' = [attempt EXCEPT ![w] = 0]
         /\ pc' = [pc EXCEPT ![w] = LoopTarget(w, pos[w] + 1)]
    ELSE /\ failed_indices' = failed_indices
         /\ pos' = pos
         /\ attempt' = [attempt EXCEPT ![w] = @ + 1]
         /\ pc' = [pc EXCEPT ![w] = "try"]

\* lines 90-100 raise: synthesis, encoding or serialisation fails
SynthesizeFail(w) ==
    /\ pc[w] = "try"
    /\ budget > 0
    /\ budget' = budget - 1
    /\ raised' = raised + 1
    /\ hist' = [hist EXCEPT ![w] = Append(HistBase(w), "synth_fail")]
    /\ histPos' = [histPos EXCEPT ![w] = pos[w]]
    /\ caught' = caught + 1
    /\ ExceptHandler(w)
    /\ UNCHANGED <<ovars, device, process_id, batch, store, fcalls, tmp,
                   counted, nBatchCalls, nFailedCalls, processed_count, lock>>

\* lines 90-100 raise something that is not an Exception (SystemExit,
\* KeyboardInterrupt): the except clause of line 111 does not catch it, the
\* process dies in its item loop
SynthesizeDie(w) ==
    /\ pc[w] = "try"
    /\ budget > 0
    /\ budget' = budget - 1
    /\ raised' = raised + 1
    /\ hist' = [hist EXCEPT ![w] = Append(HistBase(w), "synth_die")]
    /\ histPos' = [histPos EXCEPT ![w] = pos[w]]
    /\ pc' = [pc EXCEPT ![w] = "crashed_loop"]
    /\ UNCHANGED <<ovars, device, process_id, pos, attempt, batch,
                   failed_indices, store, fcalls, tmp, counted, nBatchCalls,
                   nFailedCalls, processed_count, lock, caught>>

\* faulty variant: the record is put at the front of the batch
SynthesizeOkPrepend(w) ==
    /\ pc[w] = "try"
    /\ batch' = [batch EXCEPT ![w] = <<Index(w)>> \o @]
    /\ hist' = [hist EXCEPT ![w] = Append(HistBase(w), "synth_ok")]
    /\ histPos' = [histPos EXCEPT ![w] = pos[w]]
    /\ pc' = [pc EXCEPT ![w] = "check"]
    /\ UNCHANGED <<ovars, device, process_id, pos, attempt, failed_indices,
                   store, fcalls, tmp, counted, nBatchCalls, nFailedCalls,
                   processed_count, lock, budget, caught, raised>>

\* lines 90-100: both stages return, the record is appended to the batch
SynthesizeOk(w) ==
    /\ pc[w] = "try"
    /\ batch' = [batch EXCEPT ![w] = Append(@, Index(w))]
    /\ hist' = [hist EXCEPT ![w] = Append(HistBase(w), "synth_ok")]
    /\ histPos' = [histPos EXCEPT ![w] = pos[w]]
    /\ pc' = [pc EXCEPT ![w] = "check"]
    /\ UNCHANGED <<ovars, device, process_id, pos, attempt, failed_indices,
                   store, fcalls, tmp, counted, nBatchCalls, nFailedCalls,
                   processed_count, lock, budget, caught, raised>>

\* line 102
ThresholdReached(w) == Len(batch[w]) >= save_batch_size

\* line 102 false: no flush
NoFlush(w) ==
    /\ pc[w] = "check"
    /\ ~ThresholdReached(w)
    /\ pc' = [pc EXCEPT ![w] = "acquire"]
    /\ UNCHANGED <<ovars, device, process_id, pos, attempt, batch,
                   failed_indices, store, fcalls, tmp, hist, histPos, counted,
                   nBatchCalls, nFailedCalls, processed_count, lock, budget,
                   caught, raised>>

\* lines 102-106: save_batch and save_failed_indices both return
FlushOk(w) ==
    /\ pc[w] = "check"
    /\ ThresholdReached(w)
    /\ store' = [store EXCEPT ![pid(w)] = Append(@, batch[w])]
    /\ batch' = [batch EXCEPT ![w] = <<>>]
    /\ fcalls' = [fcalls EXCEPT ![pid(w)] = Append(@, failed_indices[w])]
    /\ failed_indices' = [failed_indices EXCEPT ![w] = <<>>]
    /\ nBatchCalls' = [nBatchCalls EXCEPT ![w] = @ + 1]
    /\ nFailedCalls' = [nFailedCalls EXCEPT ![w] = @ + 1]
    /\ pc' = [pc EXCEPT ![w] = "acquire"]
    /\ UNCHANGED <<ovars, device, process_id, pos, attempt, tmp, hist,
                   histPos, counted, processed_count, lock, budget, caught,
                   raised>>

\* faulty variant: the record is counted although its flush has raised
FlushBatchFailCounted(w) ==
    /\ pc[w] = "check"
    /\ ThresholdReached(w)
    /\ budget > 0
    /\ budget' = budget - 1
    /\ raised' = raised + 1
    /\ nBatchCalls' = [nBatchCalls EXCEPT ![w] = @ + 1]
    /\ hist' = [hist EXCEPT ![w] = Append(@, "save_batch_fail")]
    /\ pc' = [pc EXCEPT ![w] = "acquire"]
    /\ UNCHANGED <<ovars, device, process_id, pos, attempt, batch,
                   failed_indices, store, fcalls, tmp, histPos, counted,
                   nFailedCalls, processed_count, lock, caught>>

\* line 103 raises: the exception is caught by the except clause of line 111
FlushBatchFail(w) ==
    /\ pc[w] = "check"
    /\ ThresholdReached(w)
    /\ budget > 0
    /\ budget' = budget - 1
    /\ raised' = raised + 1
    /\ nBatchCalls' = [nBatchCalls EXCEPT ![w] = @ + 1]
    /\ hist' = [hist EXCEPT ![w] = Append(@, "save_batch_fail")]
    /\ ExceptHandler(w)
    /\ UNCHANGED <<ovars, device, process_id, batch, store, fcalls, tmp,
                   histPos, counted, nFailedCalls, processed_count, lock,
                   caught>>

\* lines 103-104 done, line 105 raises: caught by the except clause
FlushFailedFail(w) ==
    /\ pc[w] = "check"
    /\ ThresholdReached(w)
    /\ budget > 0
    /\ budget' = budget - 1
    /\ raised' = raised + 1
    /\ store' = [store EXCEPT ![pid(w)] = Append(@, batch[w])]
    /\ batch' = [batch EXCEPT ![w] = <<>>]
    /\ nBatchCalls' = [nBatchCalls EXCEPT ![w] = @ + 1]
    /\ nFailedCalls' = [nFailedCalls EXCEPT ![w] = @ + 1]
    /\ hist' = [hist EXCEPT ![w] = Append(@, "save_failed_fail")]
    /\ ExceptHandler(w)
    /\ UNCHANGED <<ovars, device, process_id, fcalls, tmp, histPos, counted,
                   processed_count, lock, caught>>

\* line 103 raises something that is not an Exception: the process dies with
\* its batch in memory
FlushBatchDie(w) ==
    /\ pc[w] = "check"
    /\ ThresholdReached(w)
    /\ budget > 0
    /\ budget' = budget - 1
    /\ raised' = raised + 1
    /\ nBatchCalls' = [nBatchCalls EXCEPT ![w] = @ + 1]
    /\ hist' = [hist EXCEPT ![w] = Append(@, "save_batch_die")]
    /\ pc' = [pc EXCEPT ![w] = "crashed_loop"]
    /\ UNCHANGED <<ovars, device, process_id, pos, attempt, batch,
                   failed_indices, store, fcalls, tmp, histPos, counted,
                   nFailedCalls, processed_count, lock, caught>>

\* lines 103-104 done, line 105 raises something that is not an Exception:
\* the process dies with its failed indices in memory
FlushFailedDie(w) ==
    /\ pc[w] = "check"
    /\ ThresholdReached(w)
    /\ budget > 0
    /\ budget' = budget - 1
    /\ raised' = raised + 1
    /\ store' = [store EXCEPT ![pid(w)] = Append(@, batch[w])]
    /\ batch' = [batch EXCEPT ![w] = <<>>]
    /\ nBatchCalls' = [nBatchCalls EXCEPT ![w] = @ + 1]
    /\ nFailedCalls' = [nFailedCalls EXCEPT ![w] = @ + 1]
    /\ hist' = [hist EXCEPT ![w] = Append(@, "save_failed_die")]
    /\ pc' = [pc EXCEPT ![w] = "crashed_loop"]
    /\ UNCHANGED <<ovars, device, process_id, pos, attempt, failed_indices,
                   fcalls, tmp, histPos, counted, processed_count, lock,
                   caught>>

\* faulty variant: the increment is not guarded by the lock
LockIgnored == TRUE

\* line 108: processed_count.get_lock() is free
LockFree == lock = {}

\* line 108: enter "with processed_count.get_lock()"
AcquireLock(w) ==
    /\ pc[w] = "acquire"
    /\ LockFree
    /\ lock' = lock \cup {w}
    /\ pc' = [pc EXCEPT ![w] = "read"]
    /\ UNCHANGED <<ovars, device, process_id, pos, attempt, batch,
                   failed_indices, store, fcalls, tmp, hist, histPos, counted,
                   nBatchCalls, nFailedCalls, processed_count, budget, caught,
                   raised>>

\* line 109, the read of "processed_count.value += 1"
ReadCount(w) ==
    /\ pc[w] = "read"
    /\ tmp' = [tmp EXCEPT ![w] = processed_count]
    /\ pc' = [pc EXCEPT ![w] = "write"]
    /\ UNCHANGED <<ovars, device, process_id, pos, attempt, batch,
                   failed_indices, store, fcalls, hist, histPos, counted,
                   nBatchCalls, nFailedCalls, processed_count, lock, budget,
                   caught, raised>>

\* line 109, the write; the lock is released; line 110 breaks to the next item
WriteCount(w) ==
    /\ pc[w] = "write"
    /\ processed_count' = tmp[w] + 1
    /\ lock' = lock \ {w}
    /\ counted' = [counted EXCEPT ![w] = Append(@, Index(w))]
    /\ pos' = [pos EXCEPT ![w] = @ + 1]
    /\ attempt' = [attempt EXCEPT ![w] = 0]
    /\ pc' = [pc EXCEPT ![w] = LoopTarget(w, pos[w] + 1)]
    /\ UNCHANGED <<ovars, device, process_id, batch, failed_indices, store,
                   fcalls, tmp, hist, histPos, nBatchCalls, nFailedCalls,
                   budget, caught, raised>>

\* faulty variant: the residual batch is never drained
NoResidualBatch(w) == FALSE

\* line 120: is there a residual batch
HasResidualBatch(w) == batch[w] # <<>>

\* line 123: is there a residual failed-index list
HasResidualFailed(w) == failed_indices[w] # <<>>

\* lines 120-122: the residual batch is written
DrainBatch(w) ==
    /\ pc[w] = "drain_batch"
    /\ HasResidualBatch(w)
    /\ store' = [store EXCEPT ![pid(w)] = Append(@, batch[w])]
    /\ nBatchCalls' = [nBatchCalls EXCEPT ![w] = @ + 1]
    /\ pc' = [pc EXCEPT ![w] = "drain_failed"]
    /\ UNCHANGED <<ovars, device, process_id, pos, attempt, batch,
                   failed_indices, fcalls, tmp, hist, histPos, counted,
                   nFailedCalls, processed_count, lock, budget, caught,
                   raised>>

\* line 120 false: nothing to write
DrainBatchSkip(w) ==
    /\ pc[w] = "drain_batch"
    /\ ~HasResidualBatch(w)
    /\ pc' = [pc EXCEPT ![w] = "drain_failed"]
    /\ UNCHANGED <<ovars, device, process_id, pos, attempt, batch,
                   failed_indices, store, fcalls, tmp, hist, histPos, counted,
                   nBatchCalls, nFailedCalls, processed_count, lock, budget,
                   caught, raised>>

\* line 122 raises: nothing catches it, the process dies
DrainBatchFail(w) ==
    /\ pc[w] = "drain_batch"
    /\ HasResidualBatch(w)
    /\ budget > 0
    /\ budget' = budget - 1
    /\ raised' = raised + 1
    /\ nBatchCalls' = [nBatchCalls EXCEPT ![w] = @ + 1]
    /\ pc' = [pc EXCEPT ![w] = "crashed_drain_batch"]
    /\ UNCHANGED <<ovars, device, process_id, pos, attempt, batch,
                   failed_indices, store, fcalls, tmp, hist, histPos, counted,
                   nFailedCalls, processed_count, lock, caught>>

\* lines 123-125: the residual failed-index list is persisted
DrainFailed(w) ==
    /\ pc[w] = "drain_failed"
    /\ HasResidualFailed(w)
    /\ fcalls' = [fcalls EXCEPT ![pid(w)] = Append(@, failed_indices[w])]
    /\ nFailedCalls' = [nFailedCalls EXCEPT ![w] = @ + 1]
    /\ pc' = [pc EXCEPT ![w] = "close"]
    /\ UNCHANGED <<ovars, device, process_id, pos, attempt, batch,
                   failed_indices, store, tmp, hist, histPos, counted,
                   nBatchCalls, processed_count, lock, budget, caught,
                   raised>>

\* line 123 false: nothing to persist
DrainFailedSkip(w) ==
    /\ pc[w] = "drain_failed"
    /\ ~HasResidualFailed(w)
    /\ pc' = [pc EXCEPT ![w] = "close"]
    /\ UNCHANGED <<ovars, device, process_id, pos, attempt, batch,
                   failed_indices, store, fcalls, tmp, hist, histPos, counted,
                   nBatchCalls, nFailedCalls, processed_count, lock, budget,
                   caught, raised>>

\* line 125 raises: nothing catches it, the process dies
DrainFailedFail(w) ==
    /\ pc[w] = "drain_failed"
    /\ HasResidualFailed(w)
    /\ budget > 0
    /\ budget' = budget - 1
    /\ raised' = raised + 1
    /\ nFailedCalls' = [nFailedCalls EXCEPT ![w] = @ + 1]
    /\ pc' = [pc EXCEPT ![w] = "crashed_drain_failed"]
    /\ UNCHANGED <<ovars, device, process_id, pos, attempt, batch,
                   failed_indices, store, fcalls, tmp, hist, histPos, counted,
                   nBatchCalls, processed_count, lock, caught>>

\* line 127: writer.close(), the function returns
CloseWriter(w) ==
    /\ pc[w] = "close"
    /\ pc' = [pc EXCEPT ![w] = "done"]
    /\ UNCHANGED <<ovars, device, process_id, pos, attempt, batch,
                   failed_indices, store, fcalls, tmp, hist, histPos, counted,
                   nBatchCalls, nFailedCalls, processed_count, lock, budget,
                   caught, raised>>

\* line 127 raises: nothing catches it, the process dies with its records
\* written
CloseWriterFail(w) ==
    /\ pc[w] = "close"
    /\ budget > 0
    /\ budget' = budget - 1
    /\ raised' = raised + 1
    /\ pc' = [pc EXCEPT ![w] = "crashed_close"]
    /\ UNCHANGED <<ovars, device, process_id, pos, attempt, batch,
                   failed_indices, store, fcalls, tmp, hist, histPos, counted,
                   nBatchCalls, nFailedCalls, processed_count, lock, caught>>

\* ---- specification ------------------------------------------------------
Next ==
    \/ UnpackConfig
    \/ UnpackConfigFail
    \/ Setup
    \/ SetupSpeakerFail
    \/ SetupFail
    \/ SetupCounterFail
    \/ StartWorker
    \/ StartWorkerFail
    \/ Poll
    \/ PollExit
    \/ Join
    \/ LogFinal
    \/ MainUpload
    \/ MainUploadFail
    \/ MainConfigFail
    \/ MainNoUpload
    \/ \E w \in Workers : WorkerInit(w)
    \/ \E w \in Workers : WorkerInitFail(w)
    \/ \E w \in Workers : SynthesizeFail(w)
    \/ \E w \in Workers : SynthesizeDie(w)
    \/ \E w \in Workers : SynthesizeOk(w)
    \/ \E w \in Workers : NoFlush(w)
    \/ \E w \in Workers : FlushOk(w)
    \/ \E w \in Workers : FlushBatchFail(w)
    \/ \E w \in Workers : FlushFailedFail(w)
    \/ \E w \in Workers : FlushBatchDie(w)
    \/ \E w \in Workers : FlushFailedDie(w)
    \/ \E w \in Workers : AcquireLock(w)
    \/ \E w \in Workers : ReadCount(w)
    \/ \E w \in Workers : WriteCount(w)
    \/ \E w \in Workers : DrainBatch(w)
    \/ \E w \in Workers : DrainBatchSkip(w)
    \/ \E w \in Workers : DrainBatchFail(w)
    \/ \E w \in Workers : DrainFailed(w)
    \/ \E w \in Workers : DrainFailedSkip(w)
    \/ \E w \in Workers : DrainFailedFail(w)
    \/ \E w \in Workers : CloseWriter(w)
    \/ \E w \in Workers : CloseWriterFail(w)

Spec == Init /\ [][Next]_vars

\* the same program run with a single worker process
SpecWorker == InitWorker /\ [][Next]_vars

\* every process that can take a step eventually takes one, and every
\* external call returns or raises
FairSpec == InitLive /\ [][Next]_vars /\ WF_vars(Next)

\* lines 146-202: run_pipeline up to the start of the last worker
NextLaunch ==
    \/ UnpackConfig
    \/ UnpackConfigFail
    \/ Setup
    \/ SetupSpeakerFail
    \/ SetupFail
    \/ SetupCounterFail
    \/ StartWorker
    \/ StartWorkerFail

SpecLaunch == InitLaunch /\ [][NextLaunch]_vars

\* ---- observations used by the properties --------------------------------
\* records written to audio_tokens_<w> so far, in order
Records(w) == Flatten(store[pid(w)])

\* indices persisted by save_failed_indices so far, in order
Persisted(w) == Flatten(fcalls[pid(w)])

\* the in-memory batch, while it has not been handed to the drain
BatchPending(w) ==
    IF pc[w] \in {"drain_failed", "close", "done", "crashed_drain_failed",
                  "crashed_close"}
    THEN <<>> ELSE batch[w]

\* the in-memory failed indices, while not handed to the drain
FailedPending(w) ==
    IF pc[w] \in {"close", "done", "crashed_close"}
    THEN <<>> ELSE failed_indices[w]

SuccessPlaces(w) == Records(w) \o BatchPending(w)

FailurePlaces(w) == Persisted(w) \o FailedPending(w)

\* some save_batch or save_failed_indices call of worker w has raised
WriteFailed(w) ==
    nBatchCalls[w] > Len(store[pid(w)]) \/ nFailedCalls[w] > Len(fcalls[pid(w)])

\* the retry loop of the item hist[w] is about has been left
HistFinished(w) == hist[w] # <<>> /\ histPos[w] < pos[w]

HistIndex(w) == chunks[w][histPos[w]]

Range(s) == {s[k] : k \in DOMAIN s}

RECURSIVE SumOver(_, _)
SumOver(f, S) ==
    IF S = {} THEN 0
    ELSE LET x == CHOOSE y \in S : TRUE IN f[x] + SumOver(f, S \ {x})

\* failed_indices_<w>.json when every persist overwrites the file
FailedIndexFile(w) ==
    IF fcalls[pid(w)] = <<>> THEN <<>> ELSE Last(fcalls[pid(w)])

Stopped(w) == pc[w] = "done" \/ Crashed(w)

\* the workers started so far
Started == {w \in Workers : pc[w] # "unstarted"}

\* ---- C1 -------------------------------------------------------------------
\* C1: once the retry loop of an item has been left, the item's index is
\* recorded exactly once, either among the successful records (batch or
\* written) or among the failed indices (in memory or persisted).
C1_ExactlyOnePlace ==
    \A w \in Workers :
        \A k \in 1..(pos[w] - 1) :
            Count(chunks[w][k], SuccessPlaces(w))
              + Count(chunks[w][k], FailurePlaces(w)) = 1

\* ---- C2 -------------------------------------------------------------------
\* C2: an item whose synthesis and encoding succeed on some attempt is
\* counted exactly once and has exactly one record.
C2_ExactlyOnceSuccess ==
    \A w \in Workers :
        (HistFinished(w) /\ "synth_ok" \in Range(hist[w]))
            => /\ Count(HistIndex(w), counted[w]) = 1
               /\ Count(HistIndex(w), SuccessPlaces(w)) = 1

\* ---- C3 -------------------------------------------------------------------
\* C3: an item whose synthesis/encoding fails on every attempt (the stage
\* raises an Exception; a worker killed in the attempt is a crashed worker,
\* not a failed item) gets exactly
\* max_retries attempts, is recorded as failed exactly once, has no record,
\* and does not change processed_count; a one-item chunk with max_retries = 3
\* ends with the failed-index file holding exactly that index.
C3_BoundedRetry ==
    \A w \in Workers :
        (HistFinished(w) /\ Range(hist[w]) = {"synth_fail"})
            => /\ Len(hist[w]) = max_retries
               /\ Count(HistIndex(w), FailurePlaces(w)) = 1
               /\ Count(HistIndex(w), SuccessPlaces(w)) = 0
               /\ Count(HistIndex(w), counted[w]) = 0
               /\ (Len(chunks[w]) = 1 =>
                      /\ nBatchCalls[w] = 0
                      /\ (num_workers = 1 => processed_count = 0)
                      /\ (pc[w] = "done" =>
                            FailedIndexFile(w) = <<HistIndex(w)>>))

C3_Witness ==
    \E w \in Workers :
        /\ pc[w] = "done"
        /\ Len(chunks[w]) = 1
        /\ max_retries = 3
        /\ hist[w] = <<"synth_fail", "synth_fail", "synth_fail">>
        /\ FailedIndexFile(w) = <<chunks[w][1]>>

\* ---- C4 -------------------------------------------------------------------
\* C4: once a save_batch or save_failed_indices call of a worker has raised,
\* the worker has terminated abnormally.
C4_WriteFailureFatal ==
    \A w \in Workers : WriteFailed(w) => Crashed(w)

\* ---- C5 -------------------------------------------------------------------
\* C5: when a worker has stopped, its failed-index file holds every index
\* persisted at a flush, and after a normal stop every index that exhausted
\* its retries.
C5_FailedIndexDurable ==
    \A w \in Workers :
        /\ Stopped(w) => Range(Persisted(w)) \subseteq Range(FailedIndexFile(w))
        /\ pc[w] = "done" =>
              Range(failed_indices[w]) \subseteq Range(FailedIndexFile(w))

\* ---- C6 -------------------------------------------------------------------
\* C6: the final count is read after every worker has terminated, and when
\* all workers ended normally without a write failure it equals the number
\* of records written by all workers; it is 10 for 10 items, 2 workers and
\* save_batch_size 3 without failures.
C6_NoLostUpdate ==
    /\ opc \in {"join", "final", "returned"} => \A w \in Workers : ~Alive(w)
    /\ (/\ opc = "returned"
        /\ \A w \in Workers : pc[w] = "done" /\ ~WriteFailed(w))
          => /\ final_count = SumOver([w \in Workers |-> Len(Records(w))],
                                      Workers)
             /\ final_count = processed_count
             /\ (/\ Len(dataset) = 10
                 /\ num_workers = 2
                 /\ save_batch_size = 3
                 /\ \A w \in Workers : FailurePlaces(w) = <<>>)
                   => final_count = 10

C6_Witness ==
    /\ opc = "returned"
    /\ Len(dataset) = 10
    /\ num_workers = 2
    /\ save_batch_size = 3
    /\ \A w \in Workers : pc[w] = "done"
    /\ final_count = 10

\* ---- C7 -------------------------------------------------------------------
\* C7: at the threshold test a batch shorter than save_batch_size causes no
\* save_batch call; a batch that has reached it causes exactly one call,
\* carrying exactly save_batch_size records, the records are written and the
\* batch is empty when the worker goes on.  No other step of the item loop
\* calls save_batch.
C7_Step(w) ==
    /\ (pc[w] = "check" /\ pc'[w] \notin {"check", "crashed_loop"}) =>
          IF Len(batch[w]) < save_batch_size
          THEN /\ nBatchCalls'[w] = nBatchCalls[w]
               /\ store'[pid(w)] = store[pid(w)]
               /\ batch'[w] = batch[w]
          ELSE /\ nBatchCalls'[w] = nBatchCalls[w] + 1
               /\ Len(batch[w]) = save_batch_size
               /\ store'[pid(w)] = Append(store[pid(w)], batch[w])
               /\ batch'[w] = <<>>
    /\ nBatchCalls'[w] # nBatchCalls[w] => pc[w] \in {"check", "drain_batch"}

C7_FlushThreshold == [][\A w \in Workers : C7_Step(w)]_vars

\* ---- C8 -------------------------------------------------------------------
\* C8: at the end of the chunk a non-empty residual batch is handed to
\* save_batch exactly once and a non-empty residual failed list to
\* save_failed_indices exactly once, an empty residual causes no call, and
\* nothing is written once the writer is being closed.  A 5-item chunk with
\* save_batch_size 3 and no failure is written as a batch of 3 and one of 2.
C8_Step(w) ==
    /\ (pc[w] = "drain_batch" /\ pc'[w] # "drain_batch") =>
          IF batch[w] = <<>>
          THEN /\ nBatchCalls'[w] = nBatchCalls[w]
               /\ store'[pid(w)] = store[pid(w)]
               /\ pc'[w] = "drain_failed"
          ELSE /\ nBatchCalls'[w] = nBatchCalls[w] + 1
               /\ \/ /\ store'[pid(w)] = store[pid(w)]
                     /\ pc'[w] = "crashed_drain_batch"
                  \/ /\ store'[pid(w)] = Append(store[pid(w)], batch[w])
                     /\ pc'[w] = "drain_failed"
    /\ (pc[w] = "drain_failed" /\ pc'[w] # "drain_failed") =>
          IF failed_indices[w] = <<>>
          THEN /\ nFailedCalls'[w] = nFailedCalls[w]
               /\ fcalls'[pid(w)] = fcalls[pid(w)]
               /\ pc'[w] = "close"
          ELSE /\ nFailedCalls'[w] = nFailedCalls[w] + 1
               /\ \/ /\ fcalls'[pid(w)] = fcalls[pid(w)]
                     /\ pc'[w] = "crashed_drain_failed"
                  \/ /\ fcalls'[pid(w)] =
                          Append(fcalls[pid(w)], failed_indices[w])
                     /\ pc'[w] = "close"
    /\ pc[w] \in {"drain_failed", "close", "done"} =>
          nBatchCalls'[w] = nBatchCalls[w] /\ store'[pid(w)] = store[pid(w)]
    /\ pc[w] \in {"close", "done"} =>
          nFailedCalls'[w] = nFailedCalls[w] /\ fcalls'[pid(w)] = fcalls[pid(w)]
    /\ (/\ pc'[w] = "done"
        /\ Len(chunks[w]) = 5
        /\ save_batch_size = 3
        /\ ~WriteFailed(w)
        /\ FailurePlaces(w) = <<>>)
          => /\ store'[pid(w)] =
                  <<SubSeq(chunks[w], 1, 3), SubSeq(chunks[w], 4, 5)>>
             /\ nBatchCalls'[w] = 2

C8_DrainOnExit == [][\A w \in Workers : C8_Step(w)]_vars

C8_Witness ==
    \E w \in Workers :
        /\ pc[w] = "done"
        /\ Len(chunks[w]) = 5
        /\ save_batch_size = 3
        /\ store[pid(w)] = << <<0, 1, 2>>, <<3, 4>> >>
        /\ nBatchCalls[w] = 2

\* ---- C9 -------------------------------------------------------------------
\* C9: a synthesis/encode failure (the stage raises an Exception; what kills
\* the process is a worker crash) never terminates the worker and leaves the
\* batch, the written records, the persisted lists and processed_count as
\* they were; a failure that is not the last attempt changes nothing but
\* the attempt number, the last one appends the index to the failed indices
\* and moves to the next item.
SynthFailStep(w) ==
    /\ pc[w] = "try"
    /\ hist'[w] = Append(HistBase(w), "synth_fail")
    /\ histPos'[w] = pos[w]

C9_Step(w) ==
    SynthFailStep(w) =>
        /\ pc'[w] \in {"try", "drain_batch"}
        /\ batch'[w] = batch[w]
        /\ store'[pid(w)] = store[pid(w)]
        /\ fcalls'[pid(w)] = fcalls[pid(w)]
        /\ processed_count' = processed_count
        /\ IsPrefix(failed_indices[w], failed_indices'[w])
        /\ IF attempt[w] = max_retries - 1
           THEN /\ failed_indices'[w] = Append(failed_indices[w], Index(w))
                /\ pos'[w] = pos[w] + 1
                /\ pc'[w] = "drain_batch" <=> pos[w] = Len(chunks[w])
           ELSE /\ failed_indices'[w] = failed_indices[w]
                /\ pos'[w] = pos[w]
                /\ attempt'[w] = attempt[w] + 1
                /\ pc'[w] = "try"

C9_ItemFailureLocal == [][\A w \in Workers : C9_Step(w)]_vars

C9_Witness ==
    \E w \in Workers :
        /\ pc[w] = "try"
        /\ pos[w] = 3
        /\ batch[w] = <<chunks[w][1]>>
        /\ failed_indices[w] = <<chunks[w][2]>>

\* ---- C10 ------------------------------------------------------------------
\* C10: when a required key is absent from the config, run_pipeline stops at
\* the unpacking: the shared counter is never created and no worker process
\* is ever started.
C10_ConfigErrorBeforeLaunch ==
    ~(RequiredKeys \subseteq DOMAIN config)
        => /\ opc \in {"unpack", "config_error"}
           /\ ~counter_exists
           /\ started = 0
           /\ \A w \in Workers : pc[w] = "unstarted"

C10_Witness ==
    /\ opc = "config_error"
    /\ ~(RequiredKeys \subseteq DOMAIN config)
    /\ Workers # {}

\* ---- C11 ------------------------------------------------------------------
\* C11: the upload is invoked at most once, only when upload_to_s3 is
\* configured and only after run_pipeline has returned with no worker alive;
\* once the upload has started no worker writes a batch or a failed-index
\* list.
C11_Step ==
    /\ uploads' \in {uploads, uploads + 1}
    /\ uploads' = uploads + 1 =>
          /\ uploads = 0
          /\ "upload_to_s3" \in DOMAIN main_config
          /\ main_config["upload_to_s3"]
          /\ opc = "returned"
          /\ \A w \in Workers : ~Alive(w)
    /\ uploads > 0 =>
          /\ store' = store
          /\ fcalls' = fcalls
          /\ nBatchCalls' = nBatchCalls
          /\ nFailedCalls' = nFailedCalls
          /\ pc' = pc

C11_UploadAfterWorkers == [][C11_Step]_vars

C11_Witness ==
    /\ uploads = 1
    /\ opc = "exit"
    /\ \E w \in Workers : store[pid(w)] # <<>>
    /\ \E w \in Workers : Crashed(w)

\* ---- C12 ------------------------------------------------------------------
\* line 178 has been executed: there is a chunk list (of one chunk at least)
ChunksMade == DOMAIN chunks # {}

\* everything a worker owns
WorkerState(w) ==
    <<pc[w], pos[w], attempt[w], batch[w], failed_indices[w], store[pid(w)],
      fcalls[pid(w)], counted[w], nBatchCalls[w], nFailedCalls[w]>>

\* C12: a worker that died, at whatever step, is never restarted or replaced
\* and the items of its chunk are never handed to another worker; its death
\* changes nothing of the other workers, and every worker that does not die
\* goes through its whole chunk; once a worker has died the run still ends:
\* every worker stops, the orchestrator leaves the polling loop, joins, logs
\* the final count and returns.
C12_Step ==
    /\ started' \in {started, started + 1}
    /\ ChunksMade => chunks' = chunks /\ started' <= num_workers
    /\ ChunksMade => \A w \in Workers :
          /\ Crashed(w) => WorkerState(w)' = WorkerState(w)
          /\ (pc'[w] = "init" /\ pc[w] # "init") => pc[w] = "unstarted"
          /\ (Crashed(w)' /\ ~Crashed(w)) =>
                \A v \in Started \ {w} : WorkerState(v)' = WorkerState(v)
          /\ pc[w] # "unstarted" =>
                Range(Records(w)) \subseteq Range(chunks[w])
          /\ (Stopped(w) /\ pc[w] \notin {"crashed_init", "crashed_loop"}) =>
                pos[w] = Len(chunks[w]) + 1
          /\ pc[w] = "crashed_init" => pos[w] = 1 /\ Records(w) = <<>>
          /\ pc[w] = "crashed_loop" => pos[w] <= Len(chunks[w])

C12_CrashNotRecovered ==
    /\ [][C12_Step]_vars
    /\ (opc = "poll" /\ \E w \in Workers : Crashed(w))
         ~> (/\ opc \in {"exit", "main_error"}
             /\ final_count = processed_count
             /\ \A v \in Workers :
                   /\ Stopped(v)
                   /\ ~Crashed(v) => pos[v] = Len(chunks[v]) + 1)

C12_Witness ==
    /\ opc = "exit"
    /\ \E w \in Workers : pc[w] = "crashed_init" /\ chunks[w] # <<>>
    /\ \E v \in Workers : pc[v] = "done" /\ Len(Records(v)) > 0

\* ---- C13 ------------------------------------------------------------------
\* the loop of lines 184-202 has been left at its end
LaunchDone == opc \in {"poll", "join", "final", "returned", "exit", "main_error"}

\* C13: the workers are started in the order of the chunk list, one per
\* chunk; the worker of chunk i has process_id i and the device
\* devices[i mod len(devices)]; once the launch loop is through every chunk
\* has its worker, and with the len(devices) * num_procs_per_device chunks
\* line 178 asks for every device is bound to exactly num_procs_per_device
\* workers.  Before the chunks exist, and when the setup has raised after
\* line 178, no worker is started.
C13_DeviceBinding ==
    /\ ~ChunksMade => Started = {}
    /\ opc = "setup_error" => Started = {}
    /\ ChunksMade =>
          /\ Started = {i \in DOMAIN chunks : i < started}
          /\ \A w \in Started :
                /\ process_id[w] = w
                /\ \E k \in 1..Len(devices) :
                      /\ k - 1 = w % Len(devices)
                      /\ device[w] = devices[k]
          /\ LaunchDone =>
                /\ Started = DOMAIN chunks
                /\ DOMAIN chunks = 0..(Len(devices) * num_procs_per_device - 1)
                      => \A k \in 1..Len(devices) :
                            Cardinality({w \in Started :
                                            device[w] = devices[k]})
                                = num_procs_per_device

C13_Witness ==
    /\ opc = "poll"
    /\ Len(devices) = 2
    /\ num_procs_per_device = 2
    /\ DOMAIN chunks = 0..3
    /\ Started = 0..3
    /\ device = [w \in 0..3 |-> w % 2]
    /\ process_id = [w \in 0..3 |-> w]

\* ---- C14 ------------------------------------------------------------------
\* the chunks in worker order
ChunkSeq == [i \in 1..num_workers |-> chunks[i - 1]]

\* C14: the chunks handed to the workers, taken in worker order, are the
\* dataset: every index is in exactly one chunk and the dataset order is
\* kept inside and across the chunks; the chunk sizes differ by at most one;
\* 10 items and 2 workers give the chunks [0..4] and [5..9].
C14_ChunkPartition ==
    ChunksMade =>
        /\ DOMAIN chunks = 0..(num_workers - 1)
        /\ Flatten(ChunkSeq) = dataset
        /\ \A x \in Range(dataset) :
              Cardinality({i \in DOMAIN chunks : x \in Range(chunks[i])}) = 1
        /\ \A i, j \in DOMAIN chunks :
              /\ Len(chunks[i]) - Len(chunks[j]) <= 1
              /\ i < j =>
                    \A a \in Range(chunks[i]), b \in Range(chunks[j]) : a < b
        /\ (Len(dataset) = 10 /\ num_workers = 2) =>
              /\ chunks[0] = <<0, 1, 2, 3, 4>>
              /\ chunks[1] = <<5, 6, 7, 8, 9>>

C14_Witness ==
    /\ opc = "poll"
    /\ Len(dataset) = 10
    /\ num_workers = 2
    /\ chunks = (0 :> <<0, 1, 2, 3, 4>> @@ 1 :> <<5, 6, 7, 8, 9>>)

\* ---- C15 ------------------------------------------------------------------
\* the lifecycle phase a worker position belongs to
PhaseOf(p) ==
    CASE p = "unstarted" -> "NONE"
      [] p \in {"init", "crashed_init"} -> "INIT"
      [] p \in {"try", "check", "acquire", "read", "write",
                "crashed_loop"} -> "RUNNING"
      [] p \in {"drain_batch", "drain_failed", "crashed_drain_batch",
                "crashed_drain_failed"} -> "DRAINING"
      [] p \in {"close", "done", "crashed_close"} -> "DONE"

\* the phase changes the lifecycle allows; an empty chunk is a RUNNING phase
\* of zero items
PhaseOrder ==
    {<<"NONE", "INIT">>, <<"INIT", "RUNNING">>, <<"INIT", "DRAINING">>,
     <<"RUNNING", "DRAINING">>, <<"DRAINING", "DONE">>}

\* the writer of worker w has been closed, or its close has raised
CloseCalled(w) == pc[w] \in {"done", "crashed_close"}

\* every exception raised so far was a stage failure caught at line 111:
\* every other call and lookup has returned, no write has failed
OnlyCaughtFailures == raised = caught

\* C15: a worker goes through INIT, RUNNING, DRAINING, DONE in this order
\* and never back; the writer is closed only in DONE, once, as the last
\* step, and nothing is written after it; a worker stops short of a normal
\* return only where an external call has raised and nothing caught it (a
\* constructor, a call of the try block raising something that is not an
\* Exception, a drain write, the close).  Under fair scheduling every worker
\* stops; it has reached DONE when no call raised but stage calls whose
\* failure was caught and retried; the orchestrator leaves the polling loop
\* and returns, and main terminates.
C15_Step ==
    \A w \in Workers :
        /\ PhaseOf(pc'[w]) # PhaseOf(pc[w]) =>
              /\ <<PhaseOf(pc[w]), PhaseOf(pc'[w])>> \in PhaseOrder
              /\ (PhaseOf(pc[w]) = "INIT" /\ PhaseOf(pc'[w]) = "DRAINING")
                    => chunks[w] = <<>>
        /\ (CloseCalled(w)' /\ ~CloseCalled(w)) =>
              /\ pc[w] = "close"
              /\ store'[pid(w)] = store[pid(w)]
              /\ fcalls'[pid(w)] = fcalls[pid(w)]
        /\ pc'[w] = "close" /\ pc[w] # "close" => pc[w] = "drain_failed"
        /\ CloseCalled(w) => UNCHANGED WorkerState(w)
        /\ (Crashed(w)' /\ ~Crashed(w)) =>
              /\ budget' = budget - 1
              /\ raised' = raised + 1
              /\ caught' = caught
              /\ pc[w] \in {"init", "try", "check", "drain_batch",
                          "drain_failed", "close"}
        /\ pc[w] \in {"crashed_drain_batch", "crashed_drain_failed"} =>
              WriteFailed(w)

C15_Lifecycle ==
    /\ [][C15_Step]_vars
    /\ opc = "poll" ~>
          (/\ opc = "returned"
           /\ \A w \in Workers :
                 /\ Stopped(w)
                 /\ OnlyCaughtFailures => pc[w] = "done")
    /\ opc = "returned" ~> opc \in {"exit", "main_error"}

\* an item has failed once, was retried and written, and the run has ended
C15_Witness ==
    /\ opc = "exit"
    /\ max_retries = 2
    /\ caught = 1
    /\ raised = 1
    /\ OnlyCaughtFailures
    /\ \A w \in Workers : pc[w] = "done"
    /\ \E w \in Workers :
          /\ Records(w) # <<>>
          /\ Records(w) = chunks[w]
          /\ FailurePlaces(w) = <<>>

\* ---- C16 ------------------------------------------------------------------
\* C16: the in-memory batch never holds more than save_batch_size records,
\* and it holds fewer than save_batch_size records whenever the first
\* attempt of an item starts, whatever calls raise.
C16_BoundedBatch ==
    ChunksMade =>
        \A w \in Workers :
            /\ Len(batch[w]) <= save_batch_size
            /\ (pc[w] = "try" /\ attempt[w] = 0) =>
                  Len(batch[w]) < save_batch_size

\* ---- C17 ------------------------------------------------------------------
\* C17: save_failed_indices is called at a threshold flush only with a
\* non-empty list: a flush with no failed index since the previous one
\* issues no failed-index write, and a worker none of whose items failed
\* never calls save_failed_indices.
C17_Step(w) ==
    (pc[w] = "check" /\ ThresholdReached(w) /\ failed_indices[w] = <<>>) =>
        /\ nFailedCalls'[w] = nFailedCalls[w]
        /\ fcalls'[pid(w)] = fcalls[pid(w)]

C17_PersistOnlyNonEmpty ==
    [][\A w \in Workers :
          /\ C17_Step(w)
          /\ FailurePlaces(w)' = <<>> => nFailedCalls'[w] = 0]_vars

\* ---- C18 ------------------------------------------------------------------
\* what a worker owns: its chunk, its lists and its two files
Owned(w) ==
    <<chunks[w], batch[w], failed_indices[w], store[pid(w)], fcalls[pid(w)]>>

\* C18: a step of one worker changes nothing of what another worker owns
\* (chunk, batch, failed-index list, output store, failed-index file), and
\* two workers of a run never have the same output path or the same
\* failed-index path.
C18_Step ==
    \A i, j \in Started :
        i # j =>
            /\ WorkerState(i)' # WorkerState(i) => Owned(j)' = Owned(j)
            /\ file_path(i) # file_path(j)
            /\ saved_failed_indice_path(i) # saved_failed_indice_path(j)

C18_WorkerIsolation == [][C18_Step]_vars

C18_Witness ==
    \E i, j \in Started :
        /\ i # j
        /\ store[pid(i)] # <<>>
        /\ store[pid(j)] # <<>>
        /\ fcalls[pid(i)] # fcalls[pid(j)]
        /\ Range(Records(i)) \cap Range(Records(j)) = {}

\* ---- C19 ------------------------------------------------------------------
\* the position of index x in the chunk of worker w
PosIn(w, x) == CHOOSE k \in DOMAIN chunks[w] : chunks[w][k] = x

\* the indices of s are in the order of the chunk of worker w
InChunkOrder(w, s) ==
    /\ Range(s) \subseteq Range(chunks[w])
    /\ \A a \in 1..(Len(s) - 1) : PosIn(w, s[a]) <= PosIn(w, s[a + 1])

\* C19: a worker turns to the next item of its chunk only when the current
\* item has been counted as a success or has failed on its last attempt, and
\* it never goes back or skips an item; the records it has written followed
\* by those still in its batch are in chunk order, and so are the failed
\* indices it has persisted followed by those still to be persisted.
C19_Step(w) ==
    /\ pos'[w] # pos[w] =>
          /\ pos'[w] = pos[w] + 1
          /\ pos[w] <= Len(chunks[w])
          /\ \/ pc[w] = "write" /\ counted'[w] = Append(counted[w], Index(w))
             \/ /\ attempt[w] = max_retries - 1
                /\ Last(hist'[w]) # "synth_ok"
                /\ failed_indices'[w] = Append(failed_indices[w], Index(w))
    /\ (pc'[w] = "try" /\ attempt'[w] = 0 /\ pos'[w] = pos[w]) =>
          pc[w] = "init" \/ UNCHANGED <<pc[w], attempt[w]>>

C19_Order(w) ==
    /\ InChunkOrder(w, SuccessPlaces(w))
    /\ InChunkOrder(w, FailurePlaces(w))
    /\ Range(batch[w] \o failed_indices[w]) \subseteq
          {chunks[w][k] : k \in 1..Min(pos[w], Len(chunks[w]))}

C19_InOrder ==
    /\ [](ChunksMade => \A w \in Started : C19_Order(w))
    /\ [][ChunksMade => \A w \in Started : C19_Step(w)]_vars

C19_Witness ==
    \E w \in Workers :
        /\ pc[w] = "done"
        /\ Len(Records(w)) >= 2
        /\ Len(Persisted(w)) >= 2
        /\ ~WriteFailed(w)

\* ---- C20 ------------------------------------------------------------------
\* the batch in the memory of a worker process that still exists or has
\* returned
LiveBatch(w) == IF Crashed(w) THEN <<>> ELSE batch[w]

\* indices with a record in the batch of some worker or in some output
RecordedIndices ==
    UNION {Range(Records(w)) \cup Range(LiveBatch(w)) : w \in Started}

\* the same, with the batch a worker held when it died
RecordedOrLost ==
    UNION {Range(Records(w)) \cup Range(batch[w]) : w \in Started}

\* processed_count is 0 until a worker runs and a step leaves it unchanged
\* or raises it by 1; the record counted by the step either was below the
\* threshold and is the last of the batch, or its flush has returned and it
\* is in the last written batch
CountStep ==
    /\ started = 0 => processed_count = 0
    /\ processed_count' \in {processed_count, processed_count + 1}
    /\ processed_count' = processed_count + 1 =>
          \E w \in Started :
              /\ pc[w] = "write"
              /\ counted'[w] = Append(counted[w], Index(w))
              /\ \/ /\ batch[w] # <<>>
                    /\ Len(batch[w]) < save_batch_size
                    /\ Last(batch[w]) = Index(w)
                 \/ /\ batch[w] = <<>>
                    /\ store[pid(w)] # <<>>
                    /\ Last(Last(store[pid(w)])) = Index(w)

\* C20: processed_count starts at 0, every step leaves it unchanged or
\* raises it by exactly 1, a record that triggers a threshold flush is
\* counted only after the flush has returned, and the count is at most the
\* number of distinct indices with a record in the in-memory batch of some
\* worker or in some worker's output.
C20_NoOverReport ==
    /\ [](processed_count <= Cardinality(RecordedIndices))
    /\ [][CountStep]_vars

\* C20 as amended: the same, where the bound also counts the records a
\* worker held in its batch when it died.
C20_NoOverReportButLost ==
    /\ [](processed_count <= Cardinality(RecordedOrLost))
    /\ [][CountStep]_vars

C20_Witness ==
    /\ opc = "exit"
    /\ \E w \in Started : pc[w] = "crashed_drain_batch"
    /\ \E w \in Started : pc[w] = "done" /\ Records(w) # <<>>
    /\ processed_count = Cardinality(RecordedOrLost)
    /\ processed_count > Cardinality(RecordedIndices)

====
